---- MODULE Spec2Model ----
(***************************************************************************)
(* A model of phylo/celluloid.py: the conflict dissimilarity               *)
(* _conflict_dissim and the reduction cluster_mutations.                   *)
(*                                                                         *)
(* Representation.                                                         *)
(*  - A number given for k or number_of_iterations is the integer x * Den: *)
(*    with Den = 2 the value 5 stands for 2.5 and 4 for the integer 2.     *)
(*  - A string is a sequence of one-character strings, so that ','.join    *)
(*    and a split on ',' are computed and not assumed to be inverse.       *)
(*  - A grid is a sequence of rows; cluster ids run from 0, sequences      *)
(*    from 1, so centroid c is row c + 1 of cluster_centroids_.            *)
(*  - The clusterer (kmodes.KModes) is outside the repository: its call    *)
(*    either fails or returns any assignment in 0..k-1 and any k x L       *)
(*    ternary centroid grid, and it may write into the array it is given.  *)
(***************************************************************************)
EXTENDS Integers, Sequences, FiniteSets, TLC

VARIABLES
    genotype_matrix,        \* the argument: [matrix, cell_labels, mutation_labels]
    k,                      \* the argument k, as k * Den
    number_of_iterations,   \* the argument number_of_iterations, as value * Den
    pc,                     \* position in cluster_mutations
    mutations_as_points,    \* local, line 67
    points_share_input,     \* whether that array shares storage with the input's grid
    km,                     \* the KModes object: configuration, labels_, cluster_centroids_
    result,                 \* the returned GenotypeMatrix, or None
    error,                  \* the exception raised, or None
    input_before,           \* the argument's value when the call started
    a, b,                   \* the arguments of _conflict_dissim
    ret,                    \* what _conflict_dissim returned or raised
    dpc                     \* position of the _conflict_dissim call

vars == <<genotype_matrix, k, number_of_iterations, pc, mutations_as_points,
          points_share_input, km, result, error, input_before, a, b, ret, dpc>>

clusterVars == <<genotype_matrix, k, number_of_iterations, pc, mutations_as_points,
                 points_share_input, km, result, error, input_before>>

dissimVars == <<a, b, ret, dpc>>

None == [none |-> TRUE]

-----------------------------------------------------------------------------
(* Bounds of the model. *)

MaxMut == 2      \* mutations (columns) of the input
MaxCells == 2    \* cells (rows) of the input
MaxK == 3        \* largest k tried
MaxIter == 1     \* largest number_of_iterations tried
MaxEntries == 4  \* entries of the input grid, and of the centroid grid
Den == 2         \* numbers are multiples of 1/Den
MaxLen == 3      \* length of the vectors given to _conflict_dissim
MaxRows == 2     \* rows of the grids given to _conflict_dissim
MaxGrid == 6     \* entries of the grids given to _conflict_dissim

Ternary == {0, 1, 2}

-----------------------------------------------------------------------------
(* Sequences, grids and strings. *)

Range(s) == {s[i] : i \in DOMAIN s}

Min(x, y) == IF x <= y THEN x ELSE y

\* All sequences of length n over S.
SeqsOf(S, n) == [1..n -> S]

\* All grids of r rows and c columns over S.
Grids(S, r, c) == [1..r -> [1..c -> S]]

\* numpy's transpose of a 2-D array of r rows and c columns.
Transpose(g, r, c) == [j \in 1..c |-> [i \in 1..r |-> g[i][j]]]

RECURSIVE Concat(_)
\* The concatenation of a sequence of sequences.
Concat(ss) == IF ss = <<>> THEN <<>> ELSE Head(ss) \o Concat(Tail(ss))

\* What a sequence holds, with multiplicity.
BagOf(s) == [x \in Range(s) |-> Cardinality({i \in DOMAIN s : s[i] = x})]

\* The separator of line 90.
Separator == <<",">>

JoinNoSeparator(strs, sep) == Concat(strs)

RECURSIVE Join(_, _)
\* sep.join(strs): the strings with sep between consecutive ones.
Join(strs, sep) ==
    IF strs = <<>> THEN <<>>
    ELSE IF Len(strs) = 1 THEN strs[1]
    ELSE strs[1] \o sep \o Join(Tail(strs), sep)

RECURSIVE SplitFrom(_, _, _)
\* Python's s.split(c) for a one-character c, cur being the segment read so far.
SplitFrom(s, c, cur) ==
    IF s = <<>> THEN <<cur>>
    ELSE IF Head(s) = c THEN <<cur>> \o SplitFrom(Tail(s), c, <<>>)
    ELSE SplitFrom(Tail(s), c, Append(cur, Head(s)))

Split(s, c) == SplitFrom(s, c, <<>>)

-----------------------------------------------------------------------------
(* Numbers: int(x) and the validation of lines 62-65. *)

\* Python's int(x): truncation toward zero (as a multiple of Den).
IntOf(x) == IF x >= 0 THEN (x \div Den) * Den ELSE -(((-x) \div Den) * Den)

NotPositiveOnly(x) == x < Den

\* The condition of lines 62 and 64: int(x) != x or x < 1.
NotPositiveInteger(x) == IntOf(x) # x \/ x < Den

-----------------------------------------------------------------------------
(* The GenotypeMatrix collaborator (phylo/core/genotypematrix.py). *)

GenotypeMatrix(data, cells, muts) ==
    [matrix |-> data, cell_labels |-> cells, mutation_labels |-> muts]

\* genotype_matrix.matrix()
MatrixOf(gm) == gm.matrix

NumCells(gm) == Len(gm.matrix)

-----------------------------------------------------------------------------
(* The inputs tried. *)

\* Mutation labels that may repeat, one of them holding a comma itself.
LabelPool == {<<"a">>, <<"b">>, <<"a", ",", "b">>}

\* The labels m1, m2, ...: unique and without a comma.
PlainLabels(N) == [i \in 1..N |-> <<"m", ToString(i)>>]

CellLabels(L) == [i \in 1..L |-> "cell" \o ToString(i)]

\* A grid of L cells and N mutations in which s shifts every value.
PlainMatrix(L, N, s) == [i \in 1..L |-> [j \in 1..N |-> (i + j + s) % 3]]

\* Numbers from -1 to hi in steps of 1/Den.
Numbers(hi) == (-Den)..(hi * Den)

Shapes == {s \in (1..MaxCells) \X (1..MaxMut) : s[1] * s[2] <= MaxEntries}

\* The genotype matrices tried, of every shape: three grids that between them
\* hold every value at every place, under plain labels; and every labelling from
\* the pool over one grid.  (cluster_mutations reads no value of the grid and no
\* character of a label.)
Inputs ==
    UNION {{GenotypeMatrix(PlainMatrix(s[1], s[2], shift), CellLabels(s[1]),
                           PlainLabels(s[2])) : shift \in Ternary}
           \cup {GenotypeMatrix(PlainMatrix(s[1], s[2], 0), CellLabels(s[1]), muts) :
                     muts \in SeqsOf(LabelPool, s[2])} :
           s \in Shapes}

-----------------------------------------------------------------------------
(* cluster_mutations, lines 35-96. *)

ArrayAliases == TRUE

\* Line 67: np.array(...) copies, so the points do not share the input's storage
\* (np.asarray could hand back the input's own array).
ArrayIsView == FALSE

\* Lines 62-65.
Validate ==
    /\ pc = "start"
    /\ IF NotPositiveInteger(k)
       THEN /\ pc' = "error"
            /\ error' = [type |-> "ValueError", parameter |-> "k", value |-> k]
       ELSE IF NotPositiveInteger(number_of_iterations)
       THEN /\ pc' = "error"
            /\ error' = [type |-> "ValueError",
                         parameter |-> "number_of_iterations",
                         value |-> number_of_iterations]
       ELSE /\ pc' = "validated"
            /\ error' = error
    /\ UNCHANGED <<genotype_matrix, k, number_of_iterations, mutations_as_points,
                   points_share_input, km, result, input_before>>
    /\ UNCHANGED dissimVars

\* Lines 67-68.
MakePoints ==
    /\ pc = "validated"
    /\ mutations_as_points' =
           Transpose(MatrixOf(genotype_matrix), NumCells(genotype_matrix),
                     Len(MatrixOf(genotype_matrix)[1]))
    /\ points_share_input' = ArrayIsView
    /\ pc' = "transposed"
    /\ UNCHANGED <<genotype_matrix, k, number_of_iterations, km, result, error,
                   input_before>>
    /\ UNCHANGED dissimVars

\* Lines 70-76.
Construct ==
    /\ pc = "transposed"
    /\ km' = [n_clusters |-> k, cat_dissim |-> "_conflict_dissim", init |-> "huang",
              n_init |-> number_of_iterations, fitted |-> FALSE,
              labels_ |-> <<>>, cluster_centroids_ |-> <<>>]
    /\ pc' = "constructed"
    /\ UNCHANGED <<genotype_matrix, k, number_of_iterations, mutations_as_points,
                   points_share_input, result, error, input_before>>
    /\ UNCHANGED dissimVars

\* Line 78, the call raising: the exception leaves cluster_mutations as it is.
FitFails ==
    /\ pc = "constructed"
    /\ pc' = "error"
    /\ error' = [type |-> "ClustererError", parameter |-> "", value |-> 0]
    /\ UNCHANGED <<genotype_matrix, k, number_of_iterations, mutations_as_points,
                   points_share_input, km, result, input_before>>
    /\ UNCHANGED dissimVars

RECURSIVE GroupFrom(_, _, _, _)
\* Lines 82-84 for one cluster id: the labels zip pairs with cluster_id, in order,
\* from position i on.
GroupFrom(mutation_labels, clusters_of_mutations, cluster_id, i) ==
    IF i > Min(Len(mutation_labels), Len(clusters_of_mutations)) THEN <<>>
    ELSE (IF clusters_of_mutations[i] = cluster_id
          THEN <<mutation_labels[i]>> ELSE <<>>)
         \o GroupFrom(mutation_labels, clusters_of_mutations, cluster_id, i + 1)

\* clustered_mutation_labels[cluster_id] after the loop of lines 83-84.
ClusteredMutationLabels(mutation_labels, clusters_of_mutations, cluster_id) ==
    GroupFrom(mutation_labels, clusters_of_mutations, cluster_id, 1)

RECURSIVE KeysFrom(_, _, _)
\* The keys of the defaultdict in insertion order: each cluster id where it is
\* first met by the loop of lines 83-84.
KeysFrom(clusters_of_mutations, n, i) ==
    IF i > n THEN <<>>
    ELSE LET rest == KeysFrom(clusters_of_mutations, n, i + 1)
             c == clusters_of_mutations[i]
         IN <<c>> \o SelectSeq(rest, LAMBDA x : x # c)

\* Line 86.
NonemptyClusters(mutation_labels, clusters_of_mutations) ==
    KeysFrom(clusters_of_mutations,
             Min(Len(mutation_labels), Len(clusters_of_mutations)), 1)

RECURSIVE SortSet(_)
SortSet(S) ==
    IF S = {} THEN <<>>
    ELSE LET m == CHOOSE x \in S : \A y \in S : x <= y
         IN <<m>> \o SortSet(S \ {m})

InsertionOrder(keys) == keys

\* sorted(nonempty_clusters), lines 90 and 91.
Sorted(keys) == SortSet(Range(keys))

\* Line 90.
ClusteredMutationLabelsStrings(mutation_labels, clusters_of_mutations) ==
    LET ids == Sorted(NonemptyClusters(mutation_labels, clusters_of_mutations))
    IN [j \in 1..Len(ids) |->
            Join(ClusteredMutationLabels(mutation_labels, clusters_of_mutations,
                                         ids[j]),
                 Separator)]

NotTransposedBack(rows, L) == rows

\* Line 94: np.array(out_matrix).transpose(), the rows being of length L.
TransposedBack(rows, L) == Transpose(rows, Len(rows), L)

\* Lines 91-94.
OutMatrix(mutation_labels, clusters_of_mutations, cluster_centroids) ==
    LET ids == Sorted(NonemptyClusters(mutation_labels, clusters_of_mutations))
        rows == [j \in 1..Len(ids) |-> cluster_centroids[ids[j] + 1]]
    IN TransposedBack(rows, Len(rows[1]))

\* The array after the clusterer has written v at row 1, column 1.
Written(x, v) == [x EXCEPT ![1][1] = v]

\* Lines 78-96: the call of line 78 returns any assignment and any centroids (the
\* clusterer may also have written into the array it was given), and the rest of
\* cluster_mutations builds the result from them.
FitPredictAndReduce ==
    /\ pc = "constructed"
    /\ \E labels \in SeqsOf(0..(km.n_clusters \div Den - 1), Len(mutations_as_points)),
          centroids \in Grids(Ternary, km.n_clusters \div Den,
                              Len(mutations_as_points[1])),
          wrote \in BOOLEAN :
          /\ km' = [km EXCEPT !.fitted = TRUE, !.labels_ = labels,
                              !.cluster_centroids_ = centroids]
          /\ IF wrote
             THEN LET x == Written(mutations_as_points,
                                   (mutations_as_points[1][1] + 1) % 3)
                  IN /\ mutations_as_points' = x
                     /\ genotype_matrix' =
                            IF points_share_input
                            THEN [genotype_matrix EXCEPT
                                      !.matrix = Transpose(x, Len(x), Len(x[1]))]
                            ELSE genotype_matrix
             ELSE UNCHANGED <<mutations_as_points, genotype_matrix>>
          /\ result' =
                 GenotypeMatrix(
                     OutMatrix(genotype_matrix'.mutation_labels, labels, centroids),
                     genotype_matrix'.cell_labels,
                     ClusteredMutationLabelsStrings(genotype_matrix'.mutation_labels,
                                                    labels))
    /\ pc' = "done"
    /\ UNCHANGED <<k, number_of_iterations, points_share_input, error, input_before>>
    /\ UNCHANGED dissimVars

IdleDissim ==
    /\ a = None
    /\ b = None
    /\ ret = None
    /\ dpc = "idle"

\* A call of cluster_mutations: the centroid grid of k rows the clusterer will
\* return is kept within MaxEntries entries.
Init ==
    /\ genotype_matrix \in Inputs
    /\ input_before = genotype_matrix
    /\ k \in Numbers(MaxK)
    /\ (k \div Den) * NumCells(genotype_matrix) <= MaxEntries
    /\ number_of_iterations \in Numbers(MaxIter)
    /\ pc = "start"
    /\ mutations_as_points = None
    /\ points_share_input = FALSE
    /\ km = None
    /\ result = None
    /\ error = None
    /\ IdleDissim

Next ==
    \/ Validate
    \/ MakePoints
    \/ Construct
    \/ FitPredictAndReduce
    \/ FitFails

Spec == Init /\ [][Next]_vars

-----------------------------------------------------------------------------
(* _conflict_dissim, lines 31-33.  An array is [ndim, data]: data holds the  *)
(* rows of a 2-D array, and the values of a 1-D array as one row (the row    *)
(* numpy broadcasts it as); ndim tells the two apart.                        *)

Array1(v) == [ndim |-> 1, data |-> <<v>>]

Array2(g) == [ndim |-> 2, data |-> g]

\* The array as rows: numpy broadcasts a 1-D array as a single row.
RowsOf(x) == x.data

Width(x) == IF RowsOf(x) = <<>> THEN 0 ELSE Len(RowsOf(x)[1])

Size(x) == Len(RowsOf(x)) * Width(x)

Max(x, y) == IF x >= y THEN x ELSE y

\* Two axis lengths broadcast when they are equal or one of them is 1.
Broadcastable(m, n) == m = n \/ m = 1 \/ n = 1

\* Entry i of an axis of length m stretched by broadcasting.
Stretch(m, i) == IF m = 1 THEN 1 ELSE i

ConflictIgnoringRight(ai, bi) == ai # 2 /\ ai # bi

ConflictOfAnyDifference(ai, bi) == ai # bi

\* Line 32, the lambda.
Conflict(ai, bi) == ai # 2 /\ bi # 2 /\ ai # bi

\* Line 32: v(a, b), the lambda over the two arrays broadcast together, as rows.
Vectorized(x, y) ==
    LET N == Max(Len(RowsOf(x)), Len(RowsOf(y)))
        L == Max(Width(x), Width(y))
    IN [n \in 1..N |->
           [i \in 1..L |->
               Conflict(RowsOf(x)[Stretch(Len(RowsOf(x)), n)][Stretch(Width(x), i)],
                        RowsOf(y)[Stretch(Len(RowsOf(y)), n)][Stretch(Width(y), i)])]]

SumAxis0(g) ==
    IF g = <<>> THEN <<>>
    ELSE [i \in 1..Len(g[1]) |-> Cardinality({n \in 1..Len(g) : g[n][i]})]

\* Line 33: np.sum(..., axis = 1) of a 2-D boolean array: the count of each row.
SumAxis1(g) == [n \in 1..Len(g) |-> Cardinality({i \in 1..Len(g[n]) : g[n][i]})]

Returned(v) == [raised |-> "", value |-> v]

Raised(e) == [raised |-> e, value |-> <<>>]

\* Lines 31-33.  np.vectorize refuses inputs of size 0 (no otypes are set) and
\* shapes that do not broadcast; np.sum(axis = 1) refuses a 1-D array.
_conflict_dissim(x, y) ==
    IF Size(x) = 0 \/ Size(y) = 0 THEN Raised("ValueError")
    ELSE IF ~ Broadcastable(Width(x), Width(y))
            \/ ~ Broadcastable(Len(RowsOf(x)), Len(RowsOf(y)))
    THEN Raised("ValueError")
    ELSE IF Max(x.ndim, y.ndim) = 1 THEN Raised("AxisError")
    ELSE Returned(SumAxis1(Vectorized(x, y)))

\* The example of the documentation of the metric.
ExampleA == <<0, 1, 2, 0>>

ExampleB == <<0, 0, 2, 1>>

CallDissim ==
    /\ dpc = "called"
    /\ ret' = _conflict_dissim(a, b)
    /\ dpc' = "returned"
    /\ UNCHANGED <<a, b>>
    /\ UNCHANGED clusterVars

\* The calls tried: a vector or a grid against a vector of the same length, and
\* the example.
InitDissim ==
    /\ genotype_matrix = None
    /\ input_before = None
    /\ k = 0
    /\ number_of_iterations = 0
    /\ pc = "idle"
    /\ mutations_as_points = None
    /\ points_share_input = FALSE
    /\ km = None
    /\ result = None
    /\ error = None
    /\ \/ \E L \in 1..MaxLen : \E y \in SeqsOf(Ternary, L) :
              /\ b = Array1(y)
              /\ \/ \E v \in SeqsOf(Ternary, L) : a = Array1(v)
                 \/ \E N \in 1..MaxRows : \E g \in Grids(Ternary, N, L) :
                        /\ N * L <= MaxGrid
                        /\ a = Array2(g)
       \/ /\ b = Array1(ExampleB)
          /\ a \in {Array1(ExampleA), Array2(<<ExampleA>>)}
    /\ ret = None
    /\ dpc = "called"

NextDissim == CallDissim

SpecDissim == InitDissim /\ [][NextDissim]_vars

-----------------------------------------------------------------------------
(* What the claims speak of, written from their wording. *)

\* The positions where both values are known and they differ.
ConflictCount(u, v) ==
    Cardinality({i \in 1..Len(u) : u[i] # 2 /\ v[i] # 2 /\ u[i] # v[i]})

AllMissing(u) == \A i \in 1..Len(u) : u[i] = 2

\* The members of S in strictly ascending order.
AscendingSeq(S) ==
    [j \in 1..Cardinality(S) |->
        CHOOSE c \in S : Cardinality({d \in S : d < c}) = j - 1]

\* The input columns the clusterer assigned to cluster id c.
MembersOf(c) == {i \in 1..Len(km.labels_) : km.labels_[i] = c}

\* The cluster ids that received at least one mutation.
UsedIds == {km.labels_[i] : i \in 1..Len(km.labels_)}

Unique(s) == \A i, j \in DOMAIN s : s[i] = s[j] => i = j

CommaFree(s) == \A i \in DOMAIN s : "," \notin Range(s[i])

\* The segments of every output label, in output order.
OutputSegments ==
    Concat([j \in 1..Len(result.mutation_labels) |->
                Split(result.mutation_labels[j], ",")])

-----------------------------------------------------------------------------
(* Properties of cluster_mutations, stated for Spec. *)

\* C1: after a successful run on unique, comma-free mutation labels, whatever the
\* clusterer assigned, the output labels split on commas are, as a multiset,
\* exactly the input labels, and every input label is a segment of exactly one
\* output label.
C1_LabelsArePartitioned ==
    (/\ pc = "done"
     /\ Unique(genotype_matrix.mutation_labels)
     /\ CommaFree(genotype_matrix.mutation_labels))
    => /\ BagOf(OutputSegments) = BagOf(genotype_matrix.mutation_labels)
       /\ \A x \in Range(genotype_matrix.mutation_labels) :
              Cardinality({j \in 1..Len(result.mutation_labels) :
                               x \in Range(Split(result.mutation_labels[j], ","))})
              = 1

\* C1, its case: two uniquely labelled mutations were merged into one column.
C1_Merged ==
    /\ pc = "done"
    /\ genotype_matrix.mutation_labels = PlainLabels(2)
    /\ result.mutation_labels = <<<<"m", "1", ",", "m", "2">>>>

\* C2: after a successful run the output has the input's number of rows, and as
\* many columns (and labels) as there are non-empty clusters, between 1 and k.
C2_OutputShape ==
    pc = "done"
    => /\ Len(result.matrix) = Len(input_before.matrix)
       /\ Len(result.cell_labels) = Len(input_before.cell_labels)
       /\ \A i \in 1..Len(result.matrix) :
              Len(result.matrix[i]) = Cardinality(UsedIds)
       /\ Len(result.mutation_labels) = Cardinality(UsedIds)
       /\ 1 <= Cardinality(UsedIds)
       /\ Cardinality(UsedIds) * Den <= k

\* C2, its case: two cells, k = 2, and a single non-empty cluster.
C2_FewerColumnsThanK ==
    /\ pc = "done"
    /\ Len(input_before.matrix) = 2
    /\ k = 2 * Den
    /\ Len(result.matrix) = 2
    /\ Len(result.mutation_labels) = 1

\* C3: when k or number_of_iterations is not a positive integer (zero, negative
\* or fractional) the call ends in an invalid-parameter error before the
\* clusterer is constructed or invoked, and returns nothing.
C3_InvalidParametersRejected ==
    LET positiveInteger(x) == (x \div Den) * Den = x /\ x >= Den
    IN (~ positiveInteger(k) \/ ~ positiveInteger(number_of_iterations))
       => /\ pc \in {"start", "error"}
          /\ km = None
          /\ mutations_as_points = None
          /\ result = None
          /\ pc = "error" =>
                 /\ error.type = "ValueError"
                 /\ error.parameter =
                        IF ~ positiveInteger(k) THEN "k" ELSE "number_of_iterations"

\* C3, its case: the fractional k = 2 + 1/Den was rejected.
C3_FractionalRejected ==
    /\ pc = "error"
    /\ k = 2 * Den + 1
    /\ error.type = "ValueError"
    /\ error.value = k
    /\ km = None

\* C9: the input genotype matrix (grid, cell labels, mutation labels) is, at
\* every point of a call and after it, successful or failing, what it was
\* before the call.
C9_InputUnchanged == genotype_matrix = input_before

\* C9, its case: a run ended after the clusterer wrote into the array it was
\* given.
C9_ClustererWrote ==
    /\ pc = "done"
    /\ mutations_as_points #
           Transpose(input_before.matrix, Len(input_before.matrix),
                     Len(input_before.matrix[1]))

\* C10: the output columns are the non-empty cluster ids in strictly ascending
\* order; label j is the labels of the members of the j-th such id joined by
\* commas in input order, with no leading, trailing or empty segment, and column
\* j is that id's centroid; an id with no member gives no column.
C10_ColumnsFollowAscendingIds ==
    pc = "done"
    => LET ids == AscendingSeq({c \in 0..(k \div Den - 1) : MembersOf(c) # {}})
       IN /\ Len(result.mutation_labels) = Len(ids)
          /\ \A i \in 1..Len(result.matrix) : Len(result.matrix[i]) = Len(ids)
          /\ \A j \in 1..Len(ids) :
                LET members == AscendingSeq(MembersOf(ids[j]))
                    label == result.mutation_labels[j]
                    segments == Split(label, ",")
                IN /\ segments =
                          Concat([t \in 1..Len(members) |->
                                      Split(genotype_matrix.mutation_labels[members[t]],
                                            ",")])
                   /\ \A t \in 1..Len(segments) : segments[t] # <<>>
                   /\ label[1] # "," /\ label[Len(label)] # ","
                   /\ [i \in 1..Len(result.matrix) |-> result.matrix[i][j]]
                          = km.cluster_centroids_[ids[j] + 1]

\* C10, its case: ids 2 and 0 were used in that order, id 1 by nobody.
C10_GapAndReversed ==
    /\ pc = "done"
    /\ km.labels_ = <<2, 0>>
    /\ genotype_matrix.mutation_labels = PlainLabels(2)
    /\ result.mutation_labels = <<<<"m", "2">>, <<"m", "1">>>>
    /\ km.cluster_centroids_ = <<<<0>>, <<1>>, <<2>>>>
    /\ result.matrix = <<<<0, 2>>>>

-----------------------------------------------------------------------------
(* Properties of _conflict_dissim, stated for SpecDissim. *)

\* C4: for a grid of N rows against a vector, the result has N entries, entry n
\* being the conflict count of row n and the vector, the same as that row alone
\* would give.
C4_BatchedCountsEachRow ==
    (dpc = "returned" /\ a.ndim = 2 /\ b.ndim = 1)
    => /\ ret.raised = ""
       /\ Len(ret.value) = Len(a.data)
       /\ \A n \in 1..Len(a.data) :
              /\ ret.value[n] = ConflictCount(a.data[n], b.data[1])
              /\ ret.value[n] = _conflict_dissim(Array2(<<a.data[n]>>), b).value[1]

\* C4, its case: two rows of two cells, the first without conflict, the second
\* with two.
C4_TwoRows ==
    /\ dpc = "returned"
    /\ a.ndim = 2
    /\ Len(a.data) = 2
    /\ Len(b.data[1]) = 2
    /\ ret.value = <<0, 2>>

====
